---- MODULE Spec2Model ----
(***************************************************************************)
(* A model of the nokari bot's core: permission evaluation                 *)
(* (nokari/utils/perms.py), prefix resolution, extension loading and the   *)
(* confirmation prompt (nokari/core/bot.py), the command classes           *)
(* (nokari/core/commands.py) and the cooldown-gated commands               *)
(* (nokari/plugins/api.py).                                                *)
(*                                                                         *)
(* Each subsystem has its own specification (SpecPerms, SpecPrefix, ...).  *)
(* A specification draws the inputs of its subsystem in its initial state  *)
(* and leaves the variables of the other subsystems at their idle values.  *)
(***************************************************************************)
EXTENDS Integers, Sequences, FiniteSets, TLC

VARIABLES
    guild,        \* perms: the hikari.Guild snapshot (id, owner_id, roles)
    member,       \* perms: the hikari.Member snapshot (id, role_ids)
    channel,      \* perms: the hikari.GuildChannel snapshot (permission_overwrites)
    permcall,     \* perms: the last evaluation made and its outcome
    prefixes,     \* prefix: the candidate list get_prefix returned
    content,      \* prefix: message.content, a string or None
    resolved,     \* prefix: the last _resolve_prefix call and what it returned
    nodes,        \* commands: the Command and Group objects, by creation order
    runlog,       \* commands: the last is_runnable call and its outcome
    plugins,      \* extensions: what each plugin of raw_plugins does when loaded
    extensions,   \* extensions: bot.extensions, the plugins loaded
    loadlog,      \* extensions: the last load_extensions call and its outcome
    invocations,  \* cooldown: the command invocations in flight
    buckets,      \* cooldown: the cooldown buckets of the command, by bucket key
    now,          \* cooldown: the clock the buckets read
    prompt,       \* prompt: the locals of one Nokari.prompt call and its position
    seen,         \* prompt: the last interaction event handed to the predicate
    stored,       \* prefixes: bot.prefixes, by guild or user id, once it is set
    message,      \* prefixes: the guild_id and author id of the message handled
    gathered,     \* prefixes: the _get_prefixes call of the last step
    sysmodules,   \* reload: what reloading each module of sys.modules does
    report        \* reload: the last reload_module call and what it reported

permVars == <<guild, member, channel, permcall>>
prefixVars == <<prefixes, content, resolved>>
cmdVars == <<nodes, runlog>>
extVars == <<plugins, extensions, loadlog>>
cooldownVars == <<invocations, buckets, now>>
promptVars == <<prompt, seen>>
gatherVars == <<stored, message, gathered>>
reloadVars == <<sysmodules, report>>
otherThanPerms == <<prefixVars, cmdVars, extVars, cooldownVars, promptVars, gatherVars, reloadVars>>
otherThanPrefix == <<permVars, cmdVars, extVars, cooldownVars, promptVars, gatherVars, reloadVars>>
otherThanCmd == <<permVars, prefixVars, extVars, cooldownVars, promptVars, gatherVars, reloadVars>>
otherThanExt == <<permVars, prefixVars, cmdVars, cooldownVars, promptVars, gatherVars, reloadVars>>
otherThanCooldown == <<permVars, prefixVars, cmdVars, extVars, promptVars, gatherVars, reloadVars>>
otherThanPrompt == <<permVars, prefixVars, cmdVars, extVars, cooldownVars, gatherVars, reloadVars>>
otherThanGather == <<permVars, prefixVars, cmdVars, extVars, cooldownVars, promptVars, reloadVars>>
otherThanReload == <<permVars, prefixVars, cmdVars, extVars, cooldownVars, promptVars, gatherVars>>

vars == <<permVars, prefixVars, cmdVars, extVars, cooldownVars, promptVars, gatherVars, reloadVars>>

(***************************************************************************)
(* hikari.Permissions.  A permission set is the set of its bit positions;  *)
(* &, | and (perms & ~deny) are intersection, union and set difference.    *)
(***************************************************************************)
CREATE_INSTANT_INVITE == 0
KICK_MEMBERS == 1
ADMINISTRATOR == 3
VIEW_CHANNEL == 10
SEND_MESSAGES == 11
SEND_TTS_MESSAGES == 12
EMBED_LINKS == 14
ATTACH_FILES == 15
MENTION_ROLES == 17

\* ALL = hikari.Permissions(0b111111111111111111111111111111111): bits 0..32
ALL == 0..32

\* hikari.Permissions(): the empty flag
NONE == {}

\* 0b10110011111101111111111101010001, the bits cleared without VIEW_CHANNEL
ViewChannelMask ==
    {0, 4, 6, 8, 9, 10, 11, 12, 13, 14, 15, 16, 17, 18,
     20, 21, 22, 23, 24, 25, 28, 29, 31}

\* (perms & ~deny) | allow
apply_overwrites(perms, allow, deny) == (perms \ deny) \cup allow

\* _ensure_perms: the two dependent-permission rules, in the code's order
ensure_perms(perms) ==
    LET p1 == IF SEND_MESSAGES \notin perms
              THEN (((perms \ {SEND_TTS_MESSAGES}) \ {MENTION_ROLES})
                        \ {EMBED_LINKS}) \ {ATTACH_FILES}
              ELSE perms
    IN  IF VIEW_CHANNEL \notin p1 THEN p1 \ ViewChannelMask ELSE p1

\* The outcome of an evaluation: a permission set, or the exception raised
Returned(p) == [err |-> "", perms |-> p]
Raised(e) == [err |-> e, perms |-> NONE]

\* guild.get_role(role_id): None for a role the guild does not have
HasRole(g, role_id) == role_id \in DOMAIN g.roles

\* the loop of get_guild_perms over member.role_ids, from index i on
RECURSIVE UnionRoles(_, _, _, _)
UnionRoles(g, role_ids, i, ret) ==
    IF i > Len(role_ids) THEN ret
    ELSE IF ~HasRole(g, role_ids[i])
         THEN UnionRoles(g, role_ids, i + 1, ret)
         ELSE UnionRoles(g, role_ids, i + 1, ret \cup g.roles[role_ids[i]])

\* get_guild_perms with the ADMINISTRATOR test left out
get_guild_perms_no_admin(g, m) ==
    IF g.owner_id = m.id THEN Returned(ALL)
    ELSE IF g.id \notin DOMAIN g.roles THEN Raised("KeyError")
    ELSE Returned(ensure_perms(UnionRoles(g, m.role_ids, 1, g.roles[g.id])))

\* get_guild_perms(guild, member)
get_guild_perms(g, m) ==
    IF g.owner_id = m.id THEN Returned(ALL)
    ELSE IF g.id \notin DOMAIN g.roles THEN Raised("KeyError")
    ELSE LET ret == UnionRoles(g, m.role_ids, 1, g.roles[g.id])
         IN  IF ADMINISTRATOR \in ret THEN Returned(ALL)
             ELSE Returned(ensure_perms(ret))

\* the loop of has_channel_perms over member.role_ids: <<allow, deny>>
RECURSIVE UnionOverwrites(_, _, _, _)
UnionOverwrites(ch, role_ids, i, acc) ==
    IF i > Len(role_ids) THEN acc
    ELSE IF role_ids[i] \notin DOMAIN ch.permission_overwrites
         THEN UnionOverwrites(ch, role_ids, i + 1, acc)
         ELSE LET overwrite == ch.permission_overwrites[role_ids[i]]
              IN  UnionOverwrites(ch, role_ids, i + 1,
                      <<acc[1] \cup overwrite.allow, acc[2] \cup overwrite.deny>>)

\* has_channel_perms without the closing _ensure_perms
channel_perms_no_ensure(m, ch, g) ==
    LET guildwide == get_guild_perms(g, m)
    IN  IF guildwide.err # "" THEN guildwide
        ELSE IF g.id \notin DOMAIN ch.permission_overwrites THEN Raised("KeyError")
        ELSE LET everyone == ch.permission_overwrites[g.id]
                 base1 == apply_overwrites(guildwide.perms, everyone.allow, everyone.deny)
                 roles == UnionOverwrites(ch, m.role_ids, 1, <<NONE, NONE>>)
                 base2 == apply_overwrites(base1, roles[1], roles[2])
             IN  Returned(IF m.id \in DOMAIN ch.permission_overwrites
                          THEN apply_overwrites(base2,
                                   ch.permission_overwrites[m.id].allow,
                                   ch.permission_overwrites[m.id].deny)
                          ELSE base2)

\* has_channel_perms, lines 102-119: the value of base before the comparison
channel_perms(m, ch, g) ==
    LET guildwide == get_guild_perms(g, m)
    IN  IF guildwide.err # "" THEN guildwide
        ELSE IF g.id \notin DOMAIN ch.permission_overwrites THEN Raised("KeyError")
        ELSE LET everyone == ch.permission_overwrites[g.id]
                 base1 == apply_overwrites(guildwide.perms, everyone.allow, everyone.deny)
                 roles == UnionOverwrites(ch, m.role_ids, 1, <<NONE, NONE>>)
                 base2 == apply_overwrites(base1, roles[1], roles[2])
                 base3 == IF m.id \in DOMAIN ch.permission_overwrites
                          THEN apply_overwrites(base2,
                                   ch.permission_overwrites[m.id].allow,
                                   ch.permission_overwrites[m.id].deny)
                          ELSE base2
             IN  Returned(ensure_perms(base3))

\* (base & perms) == perms
HasAll(base, perms) == perms \subseteq base

(***************************************************************************)
(* The fixtures the permission evaluation is run on.                       *)
(***************************************************************************)
GuildId == "g"
MemberId == "m1"
Restrict(f, D) == [x \in D |-> f[x]]

EveryonePermChoices ==
    { {VIEW_CHANNEL, SEND_MESSAGES, EMBED_LINKS, SEND_TTS_MESSAGES, CREATE_INSTANT_INVITE},
      {VIEW_CHANNEL, EMBED_LINKS, ATTACH_FILES, MENTION_ROLES},
      {SEND_MESSAGES, SEND_TTS_MESSAGES, KICK_MEMBERS, CREATE_INSTANT_INVITE} }
R1PermChoices == { NONE, {ADMINISTRATOR}, {SEND_MESSAGES, MENTION_ROLES} }
R2Perms == {VIEW_CHANNEL}

\* guild.roles with and without the everyone role (keyed by the guild id)
RoleMaps ==
    { Restrict([g |-> ev, r1 |-> p1, r2 |-> R2Perms], dom) :
        ev \in EveryonePermChoices, p1 \in R1PermChoices,
        dom \in {{"g", "r1", "r2"}, {"r1", "r2"}} }

Guilds == { [id |-> GuildId, owner_id |-> o, roles |-> R] :
              o \in {MemberId, "m2"}, R \in RoleMaps }

\* member.role_ids: held roles, a role the guild no longer has ("r3"), and
\* a list that names the everyone role itself
Members == { [id |-> MemberId, role_ids |-> ids] :
               ids \in { <<>>, <<"r1">>, <<"r1", "r2">>, <<"r3">>, <<"g", "r1">> } }

Ow(a, d) == [allow |-> a, deny |-> d]
EveryoneOverwrites ==
    { Ow(NONE, NONE), Ow({EMBED_LINKS}, NONE), Ow(NONE, {SEND_MESSAGES}),
      Ow(NONE, {VIEW_CHANNEL}) }
R1Overwrites == { Ow(NONE, {EMBED_LINKS}), Ow({SEND_MESSAGES}, {SEND_MESSAGES}) }
R2Overwrites == { Ow({ATTACH_FILES}, NONE) }
MemberOverwrites ==
    { Ow({EMBED_LINKS}, NONE), Ow({SEND_MESSAGES, EMBED_LINKS}, {VIEW_CHANNEL}) }

Channels ==
    { [permission_overwrites |->
          Restrict([g |-> e, r1 |-> o1, r2 |-> o2, m1 |-> om], dom)] :
        e \in EveryoneOverwrites, o1 \in R1Overwrites, o2 \in R2Overwrites,
        om \in MemberOverwrites, dom \in SUBSET {"g", "r1", "r2", "m1"} }

RequestedPerms == { {SEND_MESSAGES}, {VIEW_CHANNEL, EMBED_LINKS}, {KICK_MEMBERS} }

NoCall == [op |-> "none", err |-> "", base |-> NONE, perms |-> NONE, ret |-> FALSE]

IdlePerms ==
    /\ guild = [id |-> GuildId, owner_id |-> "m2", roles |-> << >>]
    /\ member = [id |-> MemberId, role_ids |-> << >>]
    /\ channel = [permission_overwrites |-> << >>]
    /\ permcall = NoCall

InitPermsOnly ==
    /\ guild \in Guilds
    /\ member \in Members
    /\ channel \in Channels
    /\ permcall = NoCall

\* a caller evaluates get_guild_perms(guild, member)
GetGuildPerms ==
    /\ LET r == get_guild_perms(guild, member)
       IN  permcall' = [op |-> "get_guild_perms", err |-> r.err, base |-> r.perms,
                        perms |-> NONE, ret |-> FALSE]
    /\ UNCHANGED <<guild, member, channel>>
    /\ UNCHANGED otherThanPerms

\* has_guild_perms(bot, member, perms, guild)
HasGuildPerms ==
    /\ \E perms \in RequestedPerms :
         LET r == get_guild_perms(guild, member)
         IN  permcall' = [op |-> "has_guild_perms", err |-> r.err, base |-> r.perms,
                          perms |-> perms,
                          ret |-> (r.err = "" /\ HasAll(r.perms, perms))]
    /\ UNCHANGED <<guild, member, channel>>
    /\ UNCHANGED otherThanPerms

\* has_channel_perms(bot, member, channel, perms, guild)
HasChannelPerms ==
    /\ \E perms \in RequestedPerms :
         LET r == channel_perms(member, channel, guild)
         IN  permcall' = [op |-> "has_channel_perms", err |-> r.err, base |-> r.perms,
                          perms |-> perms,
                          ret |-> (r.err = "" /\ HasAll(r.perms, perms))]
    /\ UNCHANGED <<guild, member, channel>>
    /\ UNCHANGED otherThanPerms

NextPerms == GetGuildPerms \/ HasGuildPerms \/ HasChannelPerms

(***************************************************************************)
(* Prefix resolution (Nokari._resolve_prefix).  A string is the sequence   *)
(* of its characters.                                                      *)
(***************************************************************************)
Chars == {"a", "b", "A", " "}

\* str.lower(), character by character
LowerChar(c) == CASE c = "A" -> "a" [] c = "B" -> "b" [] OTHER -> c
lower(s) == [i \in 1..Len(s) |-> LowerChar(s[i])]

\* str.isspace() of one character
isspace(c) == c = " "

\* str.strip(): surrounding whitespace removed
RECURSIVE lstrip(_)
lstrip(s) == IF s # <<>> /\ isspace(Head(s)) THEN lstrip(Tail(s)) ELSE s
RECURSIVE rstrip(_)
rstrip(s) ==
    IF s # <<>> /\ isspace(s[Len(s)]) THEN rstrip(SubSeq(s, 1, Len(s) - 1)) ELSE s
strip(s) == rstrip(lstrip(s))

\* str.startswith
startswith(s, p) == Len(p) <= Len(s) /\ SubSeq(s, 1, Len(p)) = p

\* prefixes.sort(key=len, reverse=True) as the order it visits the list in:
\* the positions by descending length, equal lengths in list order (the
\* sort is stable).  InsertPos puts position i behind every position
\* already placed whose string is at least as long.
RECURSIVE InsertPos(_, _, _)
InsertPos(ps, order, i) ==
    IF order = <<>> THEN <<i>>
    ELSE IF Len(ps[Head(order)]) >= Len(ps[i])
         THEN <<Head(order)>> \o InsertPos(ps, Tail(order), i)
         ELSE <<i>> \o order
RECURSIVE SortOrder(_, _, _)
SortOrder(ps, i, order) ==
    IF i > Len(ps) THEN order ELSE SortOrder(ps, i + 1, InsertPos(ps, order, i))
sort_by_len(ps) ==
    LET order == SortOrder(ps, 1, <<>>) IN [k \in 1..Len(ps) |-> ps[order[k]]]

\* the while loop of lines 204-208: the matched prefix absorbs the run of
\* whitespace that follows it in the lowered content
RECURSIVE absorb_spaces(_, _)
absorb_spaces(prefix, lowered_content) ==
    IF Len(prefix) < Len(lowered_content)
          /\ isspace(lowered_content[Len(prefix) + 1])
    THEN absorb_spaces(Append(prefix, lowered_content[Len(prefix) + 1]),
                       lowered_content)
    ELSE prefix

None == [found |-> FALSE, prefix |-> <<>>, candidate |-> <<>>]
Found(prefix, candidate) == [found |-> TRUE, prefix |-> prefix, candidate |-> candidate]

\* the for loop of lines 201-209 over the sorted list, from position k on
RECURSIVE match_from(_, _, _)
match_from(sorted, k, lowered_content) ==
    IF k > Len(sorted) THEN None
    ELSE LET prefix == strip(sorted[k])
         IN  IF startswith(lowered_content, prefix)
             THEN Found(absorb_spaces(prefix, lowered_content), sorted[k])
             ELSE match_from(sorted, k + 1, lowered_content)

\* message.content is None
NoContent == [is_none |-> TRUE, text |-> <<>>]
Content(t) == [is_none |-> FALSE, text |-> t]

\* _resolve_prefix, lines 196-210, on the list get_prefix returned
resolve_prefix(ps, msg) ==
    IF msg.is_none THEN None
    ELSE match_from(sort_by_len(ps), 1, lower(msg.text))

MaxContentLen == 4
Strings(n) == UNION { [1..k -> Chars] : k \in 0..n }
Contents == { NoContent } \cup { Content(t) : t \in Strings(MaxContentLen) }

\* stored prefixes: plain, padded with whitespace (as the mention prefixes
\* of when_mentioned_or are), upper-case, empty and blank
CandidateStrings ==
    { <<"a">>, <<"a", "b">>, <<"a", " ">>, <<"A">>, <<>>, <<" ">> }
CandidateLists ==
    { <<c>> : c \in CandidateStrings }
        \cup { <<c, d>> : c \in CandidateStrings, d \in CandidateStrings }

NotResolved == [called |-> FALSE, given |-> <<>>, found |-> FALSE,
                prefix |-> <<>>, candidate |-> <<>>]

IdlePrefix ==
    /\ prefixes = <<>>
    /\ content = NoContent
    /\ resolved = NotResolved

InitPrefixOnly ==
    /\ prefixes \in CandidateLists
    /\ content \in Contents
    /\ resolved = NotResolved

\* one call of _resolve_prefix(message); the list is sorted in place
ResolvePrefix ==
    /\ LET r == resolve_prefix(prefixes, content)
       IN  resolved' = [called |-> TRUE, given |-> prefixes, found |-> r.found,
                        prefix |-> r.prefix, candidate |-> r.candidate]
    /\ prefixes' = sort_by_len(prefixes)
    /\ UNCHANGED content
    /\ UNCHANGED otherThanPrefix

NextPrefix == ResolvePrefix

(***************************************************************************)
(* Commands (nokari/core/commands.py).  nodes[1] is a top-level group made *)
(* by the group decorator; the others are made by Group.command and        *)
(* Group.group.  A node names its parent and its children by position.     *)
(***************************************************************************)
CheckIds == {"k1", "k2"}
CheckOutcomes == {"pass", "fail", "raise"}
DisabledMessage == "CheckFailure: Command is disabled."

\* the check loop of lightbulb's Command.is_runnable, from check i on: the
\* checks run in list order and the first that does not pass ends the chain
RECURSIVE run_checks(_, _, _, _)
run_checks(checks, outcome, i, evaluated) ==
    IF i > Len(checks) THEN [outcome |-> "True", evaluated |-> evaluated]
    ELSE IF outcome[checks[i]] = "pass"
         THEN run_checks(checks, outcome, i + 1, Append(evaluated, checks[i]))
         ELSE [outcome |-> IF outcome[checks[i]] = "fail" THEN "CheckFailure"
                           ELSE "Exception",
               evaluated |-> Append(evaluated, checks[i])]

\* Command.is_runnable with the flag tested after the checks
is_runnable_checks_first(node, outcome) ==
    LET r == run_checks(node.checks, outcome, 1, <<>>)
    IN  IF r.outcome = "True" /\ node.disabled = "true"
        THEN [outcome |-> DisabledMessage, evaluated |-> r.evaluated]
        ELSE r

\* Command.is_runnable: getattr(self, "disabled", False) first
is_runnable(node, outcome) ==
    IF node.disabled = "true"
    THEN [outcome |-> DisabledMessage, evaluated |-> <<>>]
    ELSE run_checks(node.checks, outcome, 1, <<>>)

\* cls(func, name, ..., parent=self): a new Command or Group object; the
\* disabled attribute is only annotated, not set
NewNode(name, aliases, own, is_group, inherit, parent) ==
    [name |-> name, aliases |-> aliases, checks |-> own, disabled |-> "absent",
     is_group |-> is_group, inherit_checks |-> inherit, parent |-> parent,
     subcommands |-> << >>, subset |-> {}]

SeqRange(q) == { q[i] : i \in 1..Len(q) }

\* decorate that leaves a key already present in the mapping alone
decorate_keep_first(ns, g, name, func_name, aliases, own, is_group, inherit) ==
    LET n == Len(ns) + 1
        name1 == IF name # "" THEN name ELSE func_name
        child == NewNode(name1, aliases,
                         IF ns[g].inherit_checks THEN own \o ns[g].checks ELSE own,
                         is_group, inherit, g)
        keys == {name1} \cup SeqRange(aliases)
        mapping == [k \in DOMAIN ns[g].subcommands \cup keys |->
                       IF k \in DOMAIN ns[g].subcommands
                       THEN ns[g].subcommands[k] ELSE n]
    IN  Append([ns EXCEPT ![g].subcommands = mapping,
                          ![g].subset = ns[g].subset \cup {n}],
               child)

\* decorate that extends the child's checks whatever the group's flag
decorate_always_inherit(ns, g, name, func_name, aliases, own, is_group, inherit) ==
    LET n == Len(ns) + 1
        name1 == IF name # "" THEN name ELSE func_name
        child == NewNode(name1, aliases, own \o ns[g].checks, is_group, inherit, g)
        keys == {name1} \cup SeqRange(aliases)
        mapping == [k \in DOMAIN ns[g].subcommands \cup keys |->
                       IF k \in keys THEN n ELSE ns[g].subcommands[k]]
    IN  Append([ns EXCEPT ![g].subcommands = mapping,
                          ![g].subset = ns[g].subset \cup {n}],
               child)

\* decorate of Group.command and Group.group on group g: the nodes after it
decorate(ns, g, name, func_name, aliases, own, is_group, inherit) ==
    LET n == Len(ns) + 1
        name1 == IF name # "" THEN name ELSE func_name
        child == NewNode(name1, aliases,
                         IF ns[g].inherit_checks THEN own \o ns[g].checks ELSE own,
                         is_group, inherit, g)
        keys == {name1} \cup SeqRange(aliases)
        mapping == [k \in DOMAIN ns[g].subcommands \cup keys |->
                       IF k \in keys THEN n ELSE ns[g].subcommands[k]]
    IN  Append([ns EXCEPT ![g].subcommands = mapping,
                          ![g].subset = ns[g].subset \cup {n}],
               child)

MaxNodes == 3
NameArgs == {"", "foo"}
FuncNames == {"bar"}
AliasArgs == { <<>>, <<"bar">> }
OwnChecks == { <<>>, <<"k1">> }
GroupChecks == { <<>>, <<"k2">>, <<"k1", "k2">> }

\* runlog holds the is_runnable call made by the last step, if it was one
NoRun == [cmd |-> 0, outcome |-> "", evaluated |-> <<>>]

IdleCmd ==
    /\ nodes = <<>>
    /\ runlog = NoRun

\* the top-level group, as the group decorator (lines 135-162) makes it
RootGroup(inherit, checks) ==
    [NewNode("grp", <<>>, <<>>, TRUE, inherit, 0) EXCEPT !.checks = checks]

\* a built tree: a top-level group that got its checks and then one
\* subcommand, registered by Group.command
InitCmdOnly ==
    /\ \E inherit \in BOOLEAN, checks \in GroupChecks, own \in OwnChecks :
         nodes = decorate(<< RootGroup(inherit, checks) >>, 1, "foo", "bar",
                          <<"bar">>, own, FALSE, FALSE)
    /\ runlog = NoRun

\* @g.command(name, aliases=aliases) on a function
RegisterCommand ==
    /\ Len(nodes) < MaxNodes
    /\ \E g \in 1..Len(nodes), name \in NameArgs, func_name \in FuncNames,
          aliases \in AliasArgs, own \in OwnChecks :
         /\ nodes[g].is_group
         /\ nodes' = decorate(nodes, g, name, func_name, aliases, own, FALSE, FALSE)
    /\ runlog' = NoRun
    /\ UNCHANGED otherThanCmd

\* @g.group(name, aliases=aliases, inherit_checks=inherit) on a function
RegisterGroup ==
    /\ Len(nodes) < MaxNodes
    /\ \E g \in 1..Len(nodes), name \in NameArgs, func_name \in FuncNames,
          aliases \in AliasArgs, own \in OwnChecks, inherit \in BOOLEAN :
         /\ nodes[g].is_group
         /\ nodes' = decorate(nodes, g, name, func_name, aliases, own, TRUE, inherit)
    /\ runlog' = NoRun
    /\ UNCHANGED otherThanCmd

\* a check decorator applied to a command object: the check joins its list
\* (a check is added to a command at most once here)
AddCheck ==
    /\ \E n \in 1..Len(nodes), k \in CheckIds :
         /\ k \notin SeqRange(nodes[n].checks)
         /\ nodes' = [nodes EXCEPT ![n].checks = Append(@, k)]
    /\ runlog' = NoRun
    /\ UNCHANGED otherThanCmd

\* a check taken off a command object's list
RemoveCheck ==
    /\ \E n \in 1..Len(nodes) :
         \E i \in 1..Len(nodes[n].checks) :
            nodes' = [nodes EXCEPT ![n].checks =
                         SubSeq(@, 1, i - 1) \o SubSeq(@, i + 1, Len(@))]
    /\ runlog' = NoRun
    /\ UNCHANGED otherThanCmd

\* command.disabled = value, set at run time
SetDisabled ==
    /\ \E n \in 1..Len(nodes), value \in {"true", "false"} :
         /\ nodes[n].disabled # value
         /\ nodes' = [nodes EXCEPT ![n].disabled = value]
    /\ runlog' = NoRun
    /\ UNCHANGED otherThanCmd

\* await command.is_runnable(context), each check answering as it will
IsRunnable ==
    /\ \E n \in 1..Len(nodes), outcome \in [CheckIds -> CheckOutcomes] :
         LET r == is_runnable(nodes[n], outcome)
         IN  runlog' = [cmd |-> n, outcome |-> r.outcome, evaluated |-> r.evaluated]
    /\ UNCHANGED nodes
    /\ UNCHANGED otherThanCmd

NextCmd == AddCheck \/ SetDisabled \/ IsRunnable
NextTree == RegisterCommand \/ RegisterGroup \/ AddCheck \/ RemoveCheck

(***************************************************************************)
(* Extension loading: Nokari.load_extensions (bot.py).  A plugin is named  *)
(* by its position in raw_plugins.                                         *)
(***************************************************************************)
PluginKinds == {"ok", "missing_load", "raises", "raises_extension_error"}
MaxPlugins == 3

\* lightbulb's Bot.load_extension(e): what it raises, and bot.extensions
\* after it.  An exception of the plugin's module or load function is not
\* wrapped; a plugin may itself raise lightbulb's ExtensionError.
load_extension(exts, plugs, e) ==
    IF e \in SeqRange(exts)
    THEN [extensions |-> exts, raised |-> "ExtensionAlreadyLoaded"]
    ELSE CASE plugs[e] = "missing_load" ->
                [extensions |-> exts, raised |-> "ExtensionMissingLoad"]
           [] plugs[e] = "raises_extension_error" ->
                [extensions |-> exts, raised |-> "ExtensionError"]
           [] plugs[e] = "raises" ->
                [extensions |-> exts, raised |-> "Exception"]
           [] OTHER ->
                [extensions |-> Append(exts, e), raised |-> "none"]

\* the for loop of load_extensions from plugin i on
RECURSIVE load_extensions(_, _, _, _, _)
load_extensions(plugs, i, exts, visited, printed) ==
    IF i > Len(plugs)
    THEN [extensions |-> exts, visited |-> visited, printed |-> printed,
          raised |-> "none"]
    ELSE LET r == load_extension(exts, plugs, i)
             v == Append(visited, i)
         IN  CASE r.raised = "none" ->
                    load_extensions(plugs, i + 1, r.extensions, v, printed)
               [] r.raised = "ExtensionMissingLoad" ->
                    load_extensions(plugs, i + 1, r.extensions, v,
                        Append(printed, [extension |-> i,
                                         text |-> "is missing load function."]))
               [] r.raised = "ExtensionAlreadyLoaded" ->
                    load_extensions(plugs, i + 1, r.extensions, v, printed)
               [] r.raised = "ExtensionError" ->
                    load_extensions(plugs, i + 1, r.extensions, v,
                        Append(printed, [extension |-> i,
                                         text |-> "failed to load."]))
               [] OTHER ->
                    [extensions |-> r.extensions, visited |-> v,
                     printed |-> printed, raised |-> r.raised]

NotLoaded == [called |-> FALSE, visited |-> <<>>, printed |-> <<>>, raised |-> "none"]

IdleExt ==
    /\ plugins = <<>>
    /\ extensions = <<>>
    /\ loadlog = NotLoaded

\* the plugin files found under nokari/plugins/, nothing loaded yet
InitExtOnly ==
    /\ \E n \in 1..MaxPlugins : plugins \in [1..n -> PluginKinds]
    /\ extensions = <<>>
    /\ loadlog = NotLoaded

\* bot.load_extensions()
LoadExtensions ==
    /\ LET r == load_extensions(plugins, 1, extensions, <<>>, <<>>)
       IN  /\ extensions' = r.extensions
           /\ loadlog' = [called |-> TRUE, visited |-> r.visited,
                          printed |-> r.printed, raised |-> r.raised]
    /\ UNCHANGED plugins
    /\ UNCHANGED otherThanExt

NextExt == LoadExtensions

(***************************************************************************)
(* The cooldown of the spotify commands (plugins/api.py):                  *)
(* core.cooldown(1, 2, lightbulb.cooldowns.UserBucket).  Invocations of    *)
(* the command are dispatched concurrently; each passes the cooldown and   *)
(* runs the handler, or fails with CommandIsOnCooldown.                    *)
(***************************************************************************)
Users == {"u1", "u2"}
ChannelIds == {"c1", "c2"}
CooldownUses == 1
CooldownLength == 2
MaxInvocations == 2
MaxTime == 3

\* a bucket keyed as a channel bucket would be
bucket_key_channel(inv) == inv.channel

\* UserBucket: the bucket of an invocation is its author's
bucket_key(inv) == inv.user

\* the cooldown check of one invocation at time t: one atomic
\* check-and-increment on the bucket of the invocation's key
acquire(bs, key, t) ==
    IF key \in DOMAIN bs /\ t < bs[key].expires
    THEN IF bs[key].used >= CooldownUses
         THEN [buckets |-> bs, passed |-> FALSE]
         ELSE [buckets |-> [bs EXCEPT ![key].used = @ + 1], passed |-> TRUE]
    ELSE [buckets |-> [k \in DOMAIN bs \cup {key} |->
                          IF k = key
                          THEN [expires |-> t + CooldownLength, used |-> 1]
                          ELSE bs[k]],
          passed |-> TRUE]

IdleCooldown ==
    /\ invocations = <<>>
    /\ buckets = <<>>
    /\ now = 0

InitCooldownOnly == IdleCooldown

\* a message invoking the command arrives and is dispatched
Invoke ==
    /\ Len(invocations) < MaxInvocations
    /\ \E u \in Users, c \in ChannelIds :
         invocations' = Append(invocations,
             [user |-> u, channel |-> c, pc |-> "dispatched", at |-> 0])
    /\ UNCHANGED <<buckets, now>>
    /\ UNCHANGED otherThanCooldown

\* an invocation reaches the cooldown check
CooldownCheck ==
    /\ \E i \in 1..Len(invocations) :
         /\ invocations[i].pc = "dispatched"
         /\ LET r == acquire(buckets, bucket_key(invocations[i]), now)
            IN  /\ buckets' = r.buckets
                /\ invocations' = [invocations EXCEPT
                       ![i].pc = IF r.passed THEN "running" ELSE "cooldown",
                       ![i].at = now]
    /\ UNCHANGED now
    /\ UNCHANGED otherThanCooldown

\* time passes
Tick ==
    /\ now < MaxTime
    /\ now' = now + 1
    /\ UNCHANGED <<invocations, buckets>>
    /\ UNCHANGED otherThanCooldown

NextCooldown == Invoke \/ CooldownCheck \/ Tick

(***************************************************************************)
(* The confirmation prompt: Nokari.prompt (bot.py).  One step per stretch  *)
(* of the coroutine between two suspensions.                               *)
(***************************************************************************)
CustomIds == {"sure", "nvm", "other"}
MessageIds == {"msg", "other_msg"}
UserIds == {"author", "other_user"}

NoPrompt ==
    [pc |-> "idle", delete_after |-> FALSE, confirm |-> FALSE,
     event |-> "unbound", delete_requested |-> FALSE, is_disabled |-> FALSE,
     update_requested |-> FALSE, error |-> "none", returned |-> "nothing"]

NoEvent ==
    [is_component |-> FALSE, message_id |-> "other_msg", user |-> "other_user",
     custom_id |-> "other", accepted |-> FALSE, handed |-> FALSE]

Events ==
    [is_component : BOOLEAN, message_id : MessageIds, user : UserIds,
     custom_id : CustomIds]

\* predicate without the test of the interaction's user
predicate_any_user(ev) ==
    IF ~ev.is_component THEN FALSE
    ELSE IF ev.message_id # "msg" THEN FALSE
    ELSE ev.custom_id \in {"sure", "nvm"}

\* predicate(event) of prompt: whether the event ends the wait
predicate(ev) ==
    IF ~ev.is_component THEN FALSE
    ELSE IF ev.message_id # "msg" \/ ev.user # "author" THEN FALSE
    ELSE ev.custom_id \in {"sure", "nvm"}

\* the value predicate leaves in confirm
predicate_confirm(ev, confirm) ==
    IF predicate(ev) THEN ev.custom_id = "sure" ELSE confirm

\* the second try block up to its first suspension, entered with the wait
\* over: pr holds confirm and event as the first try block left them
cleanup(pr) ==
    IF pr.delete_after
    THEN [pr EXCEPT !.pc = "rest", !.delete_requested = TRUE]
    ELSE IF pr.event = "unbound"
         THEN [pr EXCEPT !.pc = "done", !.is_disabled = TRUE,
                         !.error = "UnboundLocalError",
                         !.returned = IF pr.confirm THEN "True" ELSE "False"]
         ELSE [pr EXCEPT !.pc = "rest", !.is_disabled = TRUE,
                         !.update_requested = TRUE]

IdlePrompt ==
    /\ prompt = NoPrompt
    /\ seen = NoEvent

InitPromptOnly == IdlePrompt

\* prompt(...) is called: the message with the two buttons is sent and the
\* coroutine waits for an interaction
PromptStart ==
    /\ prompt.pc \in {"idle", "done"}
    /\ \E delete_after \in BOOLEAN :
         prompt' = [NoPrompt EXCEPT !.pc = "waiting", !.delete_after = delete_after]
    /\ seen' = NoEvent
    /\ UNCHANGED otherThanPrompt

\* an InteractionCreateEvent is dispatched while prompt waits
Interaction ==
    /\ prompt.pc = "waiting"
    /\ \E ev \in Events :
         /\ seen' = [is_component |-> ev.is_component, message_id |-> ev.message_id,
                     user |-> ev.user, custom_id |-> ev.custom_id,
                     accepted |-> predicate(ev), handed |-> TRUE]
         /\ prompt' = IF predicate(ev)
                      THEN cleanup([prompt EXCEPT
                               !.confirm = predicate_confirm(ev, prompt.confirm),
                               !.event = "bound"])
                      ELSE prompt
    /\ UNCHANGED otherThanPrompt

\* wait_for raises asyncio.TimeoutError: event is never assigned
Timeout ==
    /\ prompt.pc = "waiting"
    /\ prompt' = cleanup(prompt)
    /\ UNCHANGED seen
    /\ UNCHANGED otherThanPrompt

\* the end of the cleanup without the finally clause: an error of the REST
\* call reaches the caller
RestDonePropagating ==
    /\ prompt.pc = "rest"
    /\ \E ok \in BOOLEAN :
         prompt' = [prompt EXCEPT
                       !.pc = "done",
                       !.error = IF ok THEN "none" ELSE "HTTPError",
                       !.returned = IF ~ok THEN "raised"
                                    ELSE IF prompt.confirm THEN "True" ELSE "False"]
    /\ UNCHANGED seen
    /\ UNCHANGED otherThanPrompt

\* the REST call of the cleanup returns or raises; finally returns confirm
RestDone ==
    /\ prompt.pc = "rest"
    /\ \E ok \in BOOLEAN :
         prompt' = [prompt EXCEPT
                       !.pc = "done",
                       !.error = IF ok THEN "none" ELSE "HTTPError",
                       !.returned = IF prompt.confirm THEN "True" ELSE "False"]
    /\ UNCHANGED seen
    /\ UNCHANGED otherThanPrompt

NextPrompt == PromptStart \/ Interaction \/ Timeout \/ RestDone

(***************************************************************************)
(* The prefixes gathered for a message: _get_prefixes (bot.py), over       *)
(* bot.prefixes as _load_prefixes sets it and bot.default_prefixes.        *)
(***************************************************************************)
default_prefixes == <<"nokari", "n!">>
Unset == [set |-> FALSE, by_hash |-> <<>>]
GuildIds == {"g1", "g2"}
AuthorIds == {"u1", "u2"}
GuildEntries == { <<>>, <<"g!">>, <<"g!", "gg">> }
UserEntries == { <<>>, <<"u!">> }

\* dict.get(key, default)
get(mapping, key, default) ==
    IF key \in DOMAIN mapping THEN mapping[key] ELSE default

\* _get_prefixes(bot, message)
get_prefixes(st, msg) ==
    IF ~st.set THEN default_prefixes
    ELSE get(st.by_hash, msg.guild_id, default_prefixes)
            \o get(st.by_hash, msg.author_id, <<>>)

NotGathered == [called |-> FALSE, result |-> <<>>]

\* a message from a guild channel, or a direct message (guild_id None)
Messages == [guild_id : GuildIds \cup {"None"}, author_id : AuthorIds]

IdleGather ==
    /\ stored = Unset
    /\ message = [guild_id |-> "None", author_id |-> "u1"]
    /\ gathered = NotGathered

\* the bot as constructed: default_prefixes set, no prefixes attribute yet
InitGatherOnly ==
    /\ stored = Unset
    /\ message \in Messages
    /\ gathered = NotGathered

\* _load_prefixes: bot.prefixes becomes the records of the prefixes table
LoadPrefixes ==
    /\ \E D \in SUBSET {"g1", "u1"} :
         \E ge \in GuildEntries, ue \in UserEntries :
            stored' = [set |-> TRUE,
                       by_hash |-> [k \in D |-> IF k = "g1" THEN ge ELSE ue]]
    /\ gathered' = NotGathered
    /\ UNCHANGED message
    /\ UNCHANGED otherThanGather

\* _get_prefixes(bot, message) is evaluated for the message
GetPrefixes ==
    /\ gathered' = [called |-> TRUE, result |-> get_prefixes(stored, message)]
    /\ UNCHANGED <<stored, message>>
    /\ UNCHANGED otherThanGather

NextGather == LoadPrefixes \/ GetPrefixes

(***************************************************************************)
(* Hot-reloading modules: reload_module (bot.py).  A module name is the    *)
(* sequence of its dotted components.                                      *)
(***************************************************************************)
RequestableModules == { <<"a">>, <<"a", "b">>, <<"c", "d">> }
KnownNames == RequestableModules \cup { <<"c">> }
\* sys.modules[name] and importlib.reload(module): the name of the
\* exception raised, "" if none
reload(mods, name) ==
    IF name \notin DOMAIN mods THEN "KeyError"
    ELSE IF mods[name] = "ok" THEN "" ELSE mods[name]

\* ".".join(mod.split(".")[:-1])
parent_of(mod) == SubSeq(mod, 1, Len(mod) - 1)

\* parent.split("."): the empty name splits into one empty component
parent_split(parent) == IF parent = <<>> THEN << "" >> ELSE parent

\* the first loop with the except clause after the loop's body: the first
\* failure ends the loop
RECURSIVE reload_until_failure(_, _, _, _, _)
reload_until_failure(mods, order, i, attempted, failed) ==
    IF i > Len(order) THEN [attempted |-> attempted, failed |-> failed]
    ELSE LET e == reload(mods, order[i])
         IN  IF e = ""
             THEN reload_until_failure(mods, order, i + 1,
                                       Append(attempted, order[i]), failed)
             ELSE [attempted |-> Append(attempted, order[i]),
                   failed |-> failed \cup { <<order[i], e>> }]

\* the first loop of reload_module over the requested modules, in the
\* order the set yields them, from position i on
RECURSIVE reload_all(_, _, _, _, _)
reload_all(mods, order, i, attempted, failed) ==
    IF i > Len(order) THEN [attempted |-> attempted, failed |-> failed]
    ELSE LET e == reload(mods, order[i])
         IN  reload_all(mods, order, i + 1, Append(attempted, order[i]),
                        IF e = "" THEN failed ELSE failed \cup { <<order[i], e>> })

\* the second loop: for a parent, the packages from the parent up to the
\* top-level one whose reload failed (logged only)
parent_failures(mods, parents) ==
    { q \in UNION { { SubSeq(parent_split(p), 1, idx) :
                        idx \in 1..Len(parent_split(p)) } : p \in parents } :
        reload(mods, q) # "" }

\* modules ^ {x[0] for x in failed}
SymmetricDifference(A, B) == (A \ B) \cup (B \ A)

\* the orders in which a set can be iterated
Orders(S) ==
    { o \in [1..Cardinality(S) -> S] : \A i, j \in DOMAIN o : o[i] = o[j] => i = j }

NotReloaded ==
    [called |-> FALSE, modules |-> {}, attempted |-> <<>>, failed |-> {},
     loaded |-> {}, parents |-> {}, parent_failed |-> {}]

IdleReload ==
    /\ sysmodules = <<>>
    /\ report = NotReloaded

\* sys.modules of the running bot: some of the names are imported, and
\* the code of an imported module reloads or raises ImportError
InitReloadOnly ==
    /\ \E D \in SUBSET KnownNames : sysmodules \in [D -> {"ok", "ImportError"}]
    /\ report = NotReloaded

\* the owner runs "reload module <modules>"
ReloadModule ==
    /\ \E modules \in (SUBSET RequestableModules) \ {{}} :
         \E order \in Orders(modules) :
            LET r == reload_all(sysmodules, order, 1, <<>>, {})
                parents == { parent_of(mod) : mod \in modules }
            IN  report' = [called |-> TRUE, modules |-> modules,
                           attempted |-> r.attempted, failed |-> r.failed,
                           loaded |-> SymmetricDifference(modules,
                                          { x[1] : x \in r.failed }),
                           parents |-> parents,
                           parent_failed |-> parent_failures(sysmodules, parents)]
    /\ UNCHANGED sysmodules
    /\ UNCHANGED otherThanReload

NextReload == ReloadModule

(***************************************************************************)
(* The specifications, one per subsystem.                                  *)
(***************************************************************************)
InitPerms == InitPermsOnly /\ IdlePrefix /\ IdleCmd /\ IdleExt /\ IdleCooldown /\ IdlePrompt /\ IdleGather /\ IdleReload
SpecPerms == InitPerms /\ [][NextPerms]_vars

InitPrefix == InitPrefixOnly /\ IdlePerms /\ IdleCmd /\ IdleExt /\ IdleCooldown /\ IdlePrompt /\ IdleGather /\ IdleReload
SpecPrefix == InitPrefix /\ [][NextPrefix]_vars

InitCmd == InitCmdOnly /\ IdlePerms /\ IdlePrefix /\ IdleExt /\ IdleCooldown /\ IdlePrompt /\ IdleGather /\ IdleReload
SpecCmd == InitCmd /\ [][NextCmd]_vars

InitTree == InitCmdOnly /\ IdlePerms /\ IdlePrefix /\ IdleExt /\ IdleCooldown /\ IdlePrompt /\ IdleGather /\ IdleReload
SpecTree == InitTree /\ [][NextTree]_vars

InitExt == InitExtOnly /\ IdlePerms /\ IdlePrefix /\ IdleCmd /\ IdleCooldown /\ IdlePrompt /\ IdleGather /\ IdleReload
SpecExt == InitExt /\ [][NextExt]_vars

InitCooldown == InitCooldownOnly /\ IdlePerms /\ IdlePrefix /\ IdleCmd /\ IdleExt /\ IdlePrompt /\ IdleGather /\ IdleReload
SpecCooldown == InitCooldown /\ [][NextCooldown]_vars

InitPrompt == InitPromptOnly /\ IdlePerms /\ IdlePrefix /\ IdleCmd /\ IdleExt /\ IdleCooldown /\ IdleGather /\ IdleReload
SpecPrompt == InitPrompt /\ [][NextPrompt]_vars

InitGather == InitGatherOnly /\ IdlePerms /\ IdlePrefix /\ IdleCmd /\ IdleExt /\ IdleCooldown /\ IdlePrompt /\ IdleReload
SpecGather == InitGather /\ [][NextGather]_vars

InitReload == InitReloadOnly /\ IdlePerms /\ IdlePrefix /\ IdleCmd /\ IdleExt /\ IdleCooldown /\ IdlePrompt /\ IdleGather
SpecReload == InitReload /\ [][NextReload]_vars

(***************************************************************************)
(* Permission claims.  The definitions below restate the rules over the    *)
(* fixture itself, without the evaluation's operators.                     *)
(***************************************************************************)
IsOwner == guild.owner_id = member.id
HeldRoleIds == { member.role_ids[i] : i \in 1..Len(member.role_ids) }
HasEveryoneRole == GuildId \in DOMAIN guild.roles
\* the everyone role's permissions united with those of the held roles found
AggregatedPerms ==
    guild.roles[GuildId]
        \cup UNION { guild.roles[r] : r \in HeldRoleIds \cap DOMAIN guild.roles }
HoldsAdministrator == HasEveryoneRole /\ ADMINISTRATOR \in AggregatedPerms
SendDependents == {SEND_TTS_MESSAGES, MENTION_ROLES, EMBED_LINKS, ATTACH_FILES}
\* dependent-permission stripping, bit by bit
Stripped(P) ==
    { b \in P : /\ ~(SEND_MESSAGES \notin P /\ b \in SendDependents)
                /\ ~(VIEW_CHANNEL \notin P /\ b \in ViewChannelMask) }
Layer(P, allow, deny) == (P \ deny) \cup allow
Overwrites == channel.permission_overwrites
\* the role targets with an overwrite among the roles held besides everyone
HeldRoleTargets == (HeldRoleIds \ {GuildId}) \cap DOMAIN Overwrites
ChannelCall == permcall.op = "has_channel_perms" /\ permcall.err = ""

\* C1: for the guild owner, or a member holding ADMINISTRATOR after role
\* aggregation, has_channel_perms ignores every channel overwrite: the
\* effective set is the full set and the check returns true.
C1_OwnerAdminBypass ==
    (ChannelCall /\ (IsOwner \/ HoldsAdministrator))
        => (permcall.base = ALL /\ permcall.ret)

C3_SendDependentsStripped ==
    (permcall.op # "none" /\ permcall.err = "" /\ SEND_MESSAGES \notin permcall.base)
        => permcall.base \cap SendDependents = {}

\* C3 witness: the member overwrite allows EMBED_LINKS explicitly, the
\* channel result lacks SEND_MESSAGES and EMBED_LINKS with it
C3_Witness ==
    /\ ChannelCall
    /\ MemberId \in DOMAIN Overwrites
    /\ EMBED_LINKS \in Overwrites[MemberId].allow
    /\ VIEW_CHANNEL \in permcall.base
    /\ SEND_MESSAGES \notin permcall.base
    /\ EMBED_LINKS \notin permcall.base

\* C4: for a member who is neither owner nor administrator the channel
\* result is the guild-wide set with the everyone overwrite, then the
\* united overwrites of the held roles, then the member overwrite, each
\* applied once as (base & ~deny) | allow, then stripped.
C4_ChannelLayers ==
    (ChannelCall /\ ~IsOwner /\ ~HoldsAdministrator) =>
        LET guildwide == Stripped(AggregatedPerms)
            l1 == Layer(guildwide, Overwrites[GuildId].allow, Overwrites[GuildId].deny)
            l2 == Layer(l1, UNION { Overwrites[r].allow : r \in HeldRoleTargets },
                            UNION { Overwrites[r].deny : r \in HeldRoleTargets })
            l3 == IF MemberId \in DOMAIN Overwrites
                  THEN Layer(l2, Overwrites[MemberId].allow, Overwrites[MemberId].deny)
                  ELSE l2
        IN  permcall.base = Stripped(l3)

(***************************************************************************)
(* Prefix resolution claims.                                               *)
(***************************************************************************)
\* a candidate, trimmed as it is when it is tried, begins the message
Matches(c) == startswith(lower(content.text), strip(c))
MatchingPositions == { i \in 1..Len(resolved.given) : Matches(resolved.given[i]) }
\* the length of the run of whitespace in t right after its first n characters
SpaceRun(t, n) ==
    CHOOSE k \in 0..(Len(t) - n) :
        /\ \A i \in (n + 1)..(n + k) : isspace(t[i])
        /\ (n + k = Len(t) \/ ~isspace(t[n + k + 1]))

\* C5: the candidate selected is the longest one the message starts with,
\* and among matching candidates of that length the first of the list
\* (candidates are compared as they are matched, trimmed).
C5_LongestMatch ==
    (resolved.called /\ ~content.is_none /\ MatchingPositions # {}) =>
        /\ resolved.found
        /\ \E i \in MatchingPositions :
             /\ strip(resolved.candidate) = strip(resolved.given[i])
             /\ \A j \in MatchingPositions :
                  \/ Len(strip(resolved.given[j])) < Len(strip(resolved.given[i]))
                  \/ /\ Len(strip(resolved.given[j])) = Len(strip(resolved.given[i]))
                     /\ i <= j

\* C6: what is returned is the leading substring of the original message,
\* in the message's own case, as long as the candidate plus the whole run
\* of whitespace after it.
C6_OriginalCaseSubstring ==
    (resolved.called /\ resolved.found) =>
        LET n == Len(strip(resolved.candidate))
        IN  resolved.prefix = SubSeq(content.text, 1, n + SpaceRun(content.text, n))

(***************************************************************************)
(* Claims about the command tree.                                          *)
(***************************************************************************)

\* the command the last is_runnable call was made on
RunNode == nodes[runlog.cmd]

\* C7: is_runnable on a command whose disabled flag is set fails with the
\* "Command is disabled." check failure and evaluates none of the command's
\* checks, own or inherited; on a command whose flag is unset or absent the
\* checks are evaluated in list order up to the first that does not pass, and
\* the call succeeds exactly when all of them passed.
C7_DisabledFirst ==
    runlog.cmd # 0 =>
        IF RunNode.disabled = "true"
        THEN /\ runlog.outcome = DisabledMessage
             /\ runlog.evaluated = <<>>
        ELSE \E k \in 0..Len(RunNode.checks) :
                /\ runlog.evaluated = SubSeq(RunNode.checks, 1, k)
                /\ runlog.outcome \in {"True", "CheckFailure", "Exception"}
                /\ runlog.outcome = "True" => k = Len(RunNode.checks)
                /\ runlog.outcome # "True" => k >= 1

\* a disabled subcommand holding an own and an inherited check was asked
C7_Witness ==
    /\ runlog.cmd = 2
    /\ RunNode.disabled = "true"
    /\ nodes[1].inherit_checks
    /\ Len(RunNode.checks) >= 2
    /\ runlog.outcome = DisabledMessage
    /\ runlog.evaluated = <<>>

(***************************************************************************)
(* Claims about extension loading.                                         *)
(***************************************************************************)

\* the plugins a load_extensions call printed a given report for
Reported(text) ==
    { loadlog.printed[k].extension :
        k \in { j \in 1..Len(loadlog.printed) : loadlog.printed[j].text = text } }

\* C8: load_extensions visits every plugin of raw_plugins and returns
\* without raising: a plugin without a load function is reported and
\* skipped, a plugin whose load raises is reported as failed and skipped,
\* a loaded plugin is skipped without a report, and every other plugin is
\* loaded.
C8_LoadAllCompletes ==
    loadlog.called =>
        /\ loadlog.raised = "none"
        /\ loadlog.visited = [i \in 1..Len(plugins) |-> i]
        /\ \A i \in 1..Len(plugins) :
             CASE plugins[i] = "ok" ->
                    /\ i \in SeqRange(extensions)
                    /\ i \notin Reported("is missing load function.")
                    /\ i \notin Reported("failed to load.")
               [] plugins[i] = "missing_load" ->
                    /\ i \notin SeqRange(extensions)
                    /\ i \in Reported("is missing load function.")
               [] OTHER ->
                    /\ i \notin SeqRange(extensions)
                    /\ i \in Reported("failed to load.")

(***************************************************************************)
(* Claims about the cooldown.                                              *)
(***************************************************************************)

Passed(i) == invocations[i].pc = "running"
OnCooldown(i) == invocations[i].pc = "cooldown"
SameWindow(i, j) ==
    /\ invocations[i].at - invocations[j].at < CooldownLength
    /\ invocations[j].at - invocations[i].at < CooldownLength

C10_CleanupOnEveryExit ==
    prompt.pc = "done" =>
        IF prompt.delete_after
        THEN prompt.delete_requested
        ELSE prompt.is_disabled /\ prompt.update_requested

\* the last event handed to the predicate is a component interaction on the
\* prompt's message by the initiating user, with the given custom id
MatchingEvent(custom_id) ==
    /\ seen.handed
    /\ seen.is_component
    /\ seen.message_id = "msg"
    /\ seen.user = "author"
    /\ seen.custom_id = custom_id

\* C11: prompt returns True exactly when the wait was ended by a component
\* interaction with custom id "sure" on the prompt's message from the
\* initiating user, and False on timeout and on a matching "nvm"; a
\* matching "sure" or "nvm" ends the wait, and any other interaction leaves
\* the prompt waiting with its outcome unchanged.
C11_PromptOutcome ==
    /\ prompt.pc = "waiting" =>
          /\ prompt.confirm = FALSE
          /\ prompt.event = "unbound"
          /\ prompt.returned = "nothing"
          /\ ~MatchingEvent("sure") /\ ~MatchingEvent("nvm")
    /\ prompt.event = "bound" => MatchingEvent("sure") \/ MatchingEvent("nvm")
    /\ prompt.pc = "done" =>
          prompt.returned =
             IF prompt.event = "bound" /\ MatchingEvent("sure")
             THEN "True" ELSE "False"

\* the initiating user pressed "Sure" and prompt returned True
C11_Witness ==
    /\ prompt.pc = "done"
    /\ prompt.event = "bound"
    /\ MatchingEvent("sure")
    /\ prompt.returned = "True"

(***************************************************************************)
(* Claims about subcommand registration.                                   *)
(***************************************************************************)

\* the nodes registered on group g under key k, as name or as alias
RegisteredAs(g, k) ==
    { n \in 1..Len(nodes) :
        /\ nodes[n].parent = g
        /\ (nodes[n].name = k \/ k \in SeqRange(nodes[n].aliases)) }

\* the keys registered on group g
RegisteredKeys(g) ==
    UNION { {nodes[n].name} \cup SeqRange(nodes[n].aliases) :
              n \in { m \in 1..Len(nodes) : nodes[m].parent = g } }

Latest(S) == CHOOSE n \in S : \A m \in S : m <= n

\* C12: after any sequence of registrations on a group, the group's mapping
\* holds exactly the names and aliases registered on it, and each key
\* resolves to the node of the most recent registration that used the key
\* as its name or as an alias; a registration of a key already present
\* overwrites the entry.
C12_LatestRegistrationWins ==
    \A g \in 1..Len(nodes) :
        /\ DOMAIN nodes[g].subcommands = RegisteredKeys(g)
        /\ \A k \in RegisteredKeys(g) :
              nodes[g].subcommands[k] = Latest(RegisteredAs(g, k))

\* "bar", first an alias of foo, was registered again on the same group and
\* now resolves to the later node, while "foo" still resolves to the first
C12_Witness ==
    /\ Len(nodes) >= 3
    /\ RegisteredAs(1, "bar") = {2, 3}
    /\ nodes[1].subcommands["bar"] = 3
    /\ nodes[1].subcommands["foo"] = 2

\* C18: a subcommand registered on a group whose inherit_checks is set gets
\* the group's checks of that moment appended after its own, and one
\* registered on a group whose inherit_checks is not set gets only its own;
\* a later change of the group's checks leaves the checks of the children
\* already registered as they were.
C18_InheritSnapshot ==
    [][ /\ Len(nodes') = Len(nodes) + 1 =>
              LET child == nodes'[Len(nodes')]
                  g == child.parent
              IN  \E own \in OwnChecks :
                     child.checks = IF nodes[g].inherit_checks
                                    THEN own \o nodes[g].checks
                                    ELSE own
        /\ \A n \in 1..Len(nodes) :
              (/\ nodes[n].parent # 0
               /\ Len(nodes') = Len(nodes)
               /\ nodes'[nodes[n].parent].checks # nodes[nodes[n].parent].checks)
              => nodes'[n].checks = nodes[n].checks
      ]_vars

\* the child registered with no check of its own on an inheriting group that
\* then held k2 still holds exactly k2, while the group has since lost k2
\* and gained k1
C18_Witness ==
    /\ Len(nodes) >= 2
    /\ nodes[2].parent = 1
    /\ nodes[1].inherit_checks
    /\ nodes[2].checks = <<"k2">>
    /\ nodes[1].checks = <<"k1">>

(***************************************************************************)
(* Claims about missing everyone entries.                                  *)
(***************************************************************************)

\* the channel with an everyone overwrite of empty allow and deny added
WithEmptyEveryone ==
    [permission_overwrites |->
        [k \in DOMAIN Overwrites \cup {GuildId} |->
            IF k = GuildId THEN Ow(NONE, NONE) ELSE Overwrites[k]]]

\* C13: for a channel without an overwrite for the everyone target,
\* has_channel_perms completes without error and evaluates to what it
\* evaluates to with an everyone overwrite of empty allow and deny.
C13_EveryoneOverwriteOptional ==
    (/\ permcall.op = "has_channel_perms"
     /\ (IsOwner \/ HasEveryoneRole)
     /\ GuildId \notin DOMAIN Overwrites)
    => /\ permcall.err = ""
       /\ permcall.base = channel_perms(member, WithEmptyEveryone, guild).perms

\* C14: for a guild whose role mapping lacks the everyone role, every
\* permission evaluation fails with the lookup error, whoever the member
\* is, the owner included, and none returns a permission set.
C14_MissingEveryoneRoleFails ==
    (permcall.op # "none" /\ ~HasEveryoneRole) => permcall.err = "KeyError"

(***************************************************************************)
(* Claims about case and blank candidates in prefix resolution.            *)
(***************************************************************************)

\* the message begins with candidate c when letter case is ignored on both
\* sides
BeginsIgnoringCase(c) == startswith(lower(content.text), lower(c))

\* C15: whenever the message begins, letter case ignored on both sides,
\* with one of the candidates, a candidate is selected: a candidate stored
\* with upper-case letters matches the same letters in any case.
C15_CaseInsensitive ==
    (/\ resolved.called
     /\ ~content.is_none
     /\ \E i \in 1..Len(resolved.given) : BeginsIgnoringCase(resolved.given[i]))
    => resolved.found

\* C16: the resolution returns None when the message has no text or an
\* empty text, and when the message begins with none of the candidates; an
\* empty or blank candidate does not count as one every message begins
\* with.
C16_NoneWithoutMatch ==
    (/\ resolved.called
     /\ \/ content.is_none
        \/ content.text = <<>>
        \/ \A i \in 1..Len(resolved.given) :
              \/ strip(resolved.given[i]) = <<>>
              \/ ~BeginsIgnoringCase(strip(resolved.given[i])))
    => ~resolved.found

(***************************************************************************)
(* Claims about the gathered prefixes.                                     *)
(***************************************************************************)

\* the prefixes registered for a guild or user id, none if it has no entry
Registered(id) ==
    IF stored.set /\ id \in DOMAIN stored.by_hash THEN stored.by_hash[id] ELSE <<>>

\* C17: the list gathered for a message is the guild's prefixes followed by
\* the author's, with the default pair ["nokari", "n!"] in place of the
\* guild's prefixes whenever the guild has none registered, its entry
\* missing or empty; the guild part is never empty.
C17_GuildThenUserWithDefault ==
    gathered.called =>
        LET guild_part == IF Registered(message.guild_id) = <<>>
                          THEN <<"nokari", "n!">>
                          ELSE Registered(message.guild_id)
        IN  gathered.result = guild_part \o Registered(message.author_id)

(***************************************************************************)
(* Claims about reload_module.                                             *)
(***************************************************************************)

\* the requested modules the report lists as failed
FailedNames == { x[1] : x \in report.failed }

\* what reloading a requested module does: the error's name, "" if none
ReloadError(mod) ==
    IF mod \notin DOMAIN sysmodules THEN "KeyError"
    ELSE IF sysmodules[mod] = "ImportError" THEN "ImportError" ELSE ""

\* C19: reload_module attempts every requested module once, whatever
\* failed before it, and its report lists every requested module exactly
\* once: in the reloaded list if its reload succeeded, in the failed list
\* with the name of its error if not, never in both and never in neither.
C19_EveryModuleReported ==
    report.called =>
        /\ SeqRange(report.attempted) = report.modules
        /\ Len(report.attempted) = Cardinality(report.modules)
        /\ report.loaded \cup FailedNames = report.modules
        /\ report.loaded \cap FailedNames = {}
        /\ \A mod \in report.modules :
              IF ReloadError(mod) = ""
              THEN mod \in report.loaded
              ELSE { x \in report.failed : x[1] = mod } = { <<mod, ReloadError(mod)>> }

\* of three requested modules the first attempted failed and a later one
\* was reloaded
C19_Witness ==
    /\ report.called
    /\ Cardinality(report.modules) = 3
    /\ report.attempted[1] \in FailedNames
    /\ report.attempted[3] \in report.loaded

(***************************************************************************)
(* Claims about the prompt's return.                                       *)
(***************************************************************************)

\* C20: once the wait is over, by a matching interaction or by timeout,
\* prompt returns the recorded outcome, True or False, to its caller, also
\* when the deletion of the message or the update of its buttons raised:
\* the error is swallowed, never raised to the caller.
C20_CleanupErrorSwallowed ==
    prompt.pc = "done" =>
        prompt.returned = IF prompt.confirm THEN "True" ELSE "False"

\* the user confirmed, the cleanup's REST call failed, prompt returned True
C20_Witness ==
    /\ prompt.pc = "done"
    /\ prompt.event = "bound"
    /\ prompt.error = "HTTPError"
    /\ prompt.returned = "True"

====
